---- MODULE Spec2Model ----
(***************************************************************************)
(* Model of the uidstress external-memory deduplication engine             *)
(* (package uidstress: Run, runScheme, writeChunkFile, hashFile,           *)
(* saveManifest, verifyChunks, chunkReader, mergeHeap, mergeChunks,        *)
(* dedupeSorted).                                                          *)
(*                                                                         *)
(* Strings are sequences of byte values and are ordered bytewise, as Go    *)
(* orders strings.  A file is the sequence of bytes it holds.  SHA-256 is  *)
(* idealised as a collision-free function of the bytes it is fed.          *)
(***************************************************************************)
EXTENDS Integers, Sequences, FiniteSets, TLC

\* ------------------------------------------------------------------ bounds

\* Largest Scale (identifiers per scheme) a run is started with.
MaxScale == 3

\* Largest Scale of the runs over a list of schemes.
MaxListScale == 2

\* ------------------------------------------------------- program constants

LF == 10
CR == 13
defaultApproxBytesPerID == 64
DefaultChunkCap == 1000000
DefaultLogInterval == 1000000
MiB == 1048576

\* The identifiers the generator capability may return.  The real schemes
\* return fixed-alphabet strings; the engine accepts any string, so the pool
\* also holds the empty string (a proper prefix of every other value), a
\* value that is a line feed and a value ending in a carriage return.
GenPool == { <<>>, <<97>>, <<98>>, <<LF>>, <<97, CR>> }

\* Bytes a storage fault may leave in place of a persisted byte: a record
\* delimiter or a letter.
ByteAlphabet == {LF, 97}

\* Memory (bytes) the operating system may report as available.
MemLevels == {0, 256 * MiB, 1024 * MiB}

\* Memory guard margin (MB) of the configuration (the -mem-guard default).
MemGuardChoices == {512}

\* ------------------------------------------------------------ Go strings

RECURSIVE StrLess(_, _)
\* a < b for Go strings: bytewise lexicographic, a proper prefix is smaller.
StrLess(a, b) ==
    IF b = <<>> THEN FALSE
    ELSE IF a = <<>> THEN TRUE
    ELSE IF Head(a) # Head(b) THEN Head(a) < Head(b)
    ELSE StrLess(Tail(a), Tail(b))

Range(s) == { s[i] : i \in 1..Len(s) }

HasLineTerminator(v) == \E i \in 1..Len(v) : v[i] \in {LF, CR}

minInt64(a, b) == IF a < b THEN a ELSE b

\* ------------------------------------------------------------ sort.Strings

RECURSIVE InsertSorted(_, _)
InsertSorted(v, s) ==
    IF s = <<>> THEN <<v>>
    ELSE IF StrLess(Head(s), v) THEN <<Head(s)>> \o InsertSorted(v, Tail(s))
    ELSE <<v>> \o s

\* A sort that leaves its input as it is.
SortStringsKeep(s) == s

RECURSIVE SortStrings(_)
\* sort.Strings(chunkIDs): ascending by ordinary string comparison.
SortStrings(s) ==
    IF s = <<>> THEN <<>> ELSE InsertSorted(Head(s), SortStrings(Tail(s)))

\* ------------------------------------------------------------ dedupeSorted

RECURSIVE DedupeScan(_, _, _, _)
\* The loop of dedupeSorted: i is the read index, out the compacted prefix
\* values[:writeIdx], prev the last value kept.
DedupeScan(values, i, out, prev) ==
    IF i > Len(values) THEN out
    ELSE IF values[i] # prev
         THEN DedupeScan(values, i + 1, Append(out, values[i]), values[i])
         ELSE DedupeScan(values, i + 1, out, prev)

\* A compaction that keeps every element.
dedupeSortedKeepAll(values) == values

\* A compaction that compares with the first element instead of the last kept.
dedupeSortedDropLast(values) ==
    IF Len(values) <= 1 THEN values ELSE SubSeq(values, 1, Len(values) - 1)

dedupeSorted(values) ==
    IF Len(values) = 0 THEN <<>>
    ELSE DedupeScan(values, 2, <<values[1]>>, values[1])

\* ------------------------------------------------------------ hashing

\* SHA-256 followed by hex encoding, idealised as collision free.
Sha256Hex(bytes) == [sha256 |-> bytes]

RECURSIVE HashInput(_)
\* The bytes hashStrings feeds to the hash: each value followed by '\n'.
HashInput(values) ==
    IF values = <<>> THEN <<>>
    ELSE Head(values) \o <<LF>> \o HashInput(Tail(values))

hashStrings(values) == Sha256Hex(HashInput(values))

\* hashFile(path): the hash of the bytes the file holds.
hashFile(data) == Sha256Hex(data)

\* A record written without its delimiter.
WriteRecordNoDelimiter(buf, v) == buf \o v

\* writer.WriteString(v); writer.WriteByte('\n') on a buffered writer.
WriteRecord(buf, v) == (buf \o v) \o <<LF>>

\* ------------------------------------------------------------ bufio.Scanner

dropCR(data) ==
    IF Len(data) > 0 /\ data[Len(data)] = CR
    THEN SubSeq(data, 1, Len(data) - 1) ELSE data

HasLF(data) == \E i \in 1..Len(data) : data[i] = LF

FirstLF(data) == CHOOSE i \in 1..Len(data) :
                    data[i] = LF /\ \A j \in 1..(i - 1) : data[j] # LF

\* One call of reader.Scan() with the line splitter, on the unread bytes of
\* a file that has been read to its end: ok is Scan's result, token is
\* reader.Text(), rest the bytes left unread.
ScanLine(data) ==
    IF data = <<>> THEN [ok |-> FALSE, token |-> <<>>, rest |-> <<>>]
    ELSE IF HasLF(data)
    THEN [ok |-> TRUE,
          token |-> dropCR(SubSeq(data, 1, FirstLF(data) - 1)),
          rest |-> SubSeq(data, FirstLF(data) + 1, Len(data))]
    ELSE [ok |-> TRUE, token |-> dropCR(data), rest |-> <<>>]

\* chunkReader.advance() without a read error.
advance(c) ==
    IF c.eof THEN c
    ELSE IF ~ScanLine(c.buf).ok
         THEN [c EXCEPT !.eof = TRUE, !.value = <<>>]
         ELSE [c EXCEPT !.value = ScanLine(c.buf).token,
                        !.buf = ScanLine(c.buf).rest]

\* A cursor handed out before its first value was read.
newChunkReaderUnprimed(idx, data) ==
    [meta |-> idx, buf |-> data, value |-> <<>>, eof |-> FALSE]

\* newChunkReader(meta) without an open or read error: the scanner's buffer
\* (64 KiB) takes in a whole small file at its first read.
newChunkReader(idx, data) ==
    advance([meta |-> idx, buf |-> data, value |-> <<>>, eof |-> FALSE])

RECURSIVE ScanAll(_)
\* Every token a cursor over the bytes yields until it is exhausted.
ScanAll(data) ==
    IF ~ScanLine(data).ok THEN <<>>
    ELSE <<ScanLine(data).token>> \o ScanAll(ScanLine(data).rest)

\* ------------------------------------------------------------ mergeHeap

\* An ordering of heap entries with the comparison turned around.
LessReversed(a, b) == StrLess(b.value, a.value)

\* An ordering of heap entries by their source instead of their value.
LessByReader(a, b) == a.reader < b.reader

\* mergeHeap.Less
Less(a, b) == StrLess(a.value, b.value)

\* The entries heap.Pop may return: those no other entry is Less than.  Which
\* of several equal minima comes out depends on the heap's layout.
HeapMin(hp) == { e \in hp : \A o \in hp : ~Less(o, e) }

\* ------------------------------------------------------------ manifest

\* json.MarshalIndent(man): the header fields, then one record per chunk.
Marshal(m) ==
    <<[Scheme |-> m.Scheme, Scale |-> m.Scale, ChunkSize |-> m.ChunkSize,
       ApproxBytesPerID |-> m.ApproxBytesPerID]>> \o m.Chunks

\* Chunk indexes a (possibly partial) serialized manifest refers to.
ReferencedBy(data) == { data[i].Index : i \in 2..Len(data) }

\* saveManifest writes to a path other than the canonical one first.
TmpPathCanonical == "manifest"

TmpPath == "tmp"

NoFile == [exists |-> FALSE, data |-> <<>>]

NoMetaFiles == [p \in {"tmp", "manifest", "sidecar"} |-> NoFile]

\* ------------------------------------------------------------------ state

VARIABLES
    cfg,            \* Config, as Run holds it
    ctxDone,        \* ctx.Done() is closed
    pc,             \* position of the program
    err,            \* the error Run returned ("" while none)
    schemeIdx,      \* position of Run's loop over cfg.Schemes (1-based)
    results,        \* Run's results slice
    scratch,        \* tempDir exists
    chunkFiles,     \* chunk files of tempDir, by chunk index + 1
    metaFiles,      \* manifest.json.tmp, manifest.json, manifest.json.sha256
    man,            \* runScheme: the in-memory manifest
    totalGenerated, totalUniqueSum, chunkIndex,
    chunkTarget, chunkIDs, unique, chunkHash,
    wpos, wbuf,     \* writeChunkFile: next value to write, the writer's buffer
    vidx,           \* verifyChunks: next chunk to re-hash (1-based)
    midx,           \* mergeChunks: next chunk to open (1-based)
    readers, h, prevValue, hasPrev, mUnique, mDuplicates, processed,
    \* History of the run, read by the properties only.
    genBatches,     \* per chunk, the set of values the generator returned
    genCalls,       \* number of generator invocations of the scheme run
    fsynced,        \* chunk indexes whose f.Sync() returned nil
    hashChecked,    \* chunk indexes whose post-write hashes were equal
    tampered,       \* chunk indexes a storage fault has modified
    verified,       \* chunk indexes verifyChunks found unchanged
    manHist,        \* the manifest as of the latest append
    popLog,         \* the merge loop's pops: value and classification
    memSeen,        \* the latest reading of available memory, and for what
    printed,        \* the progress lines written to standard output
    handles,        \* the file handles mergeChunks opened, with their closes
    \* Package tools: the state GenerateCustomUID keeps, and its callers.
    customUIDState, \* lastSecond, counter and randomBase, under the mutex
    clock,          \* what time.Now().Unix() returns
    callers,        \* per caller: its position and the second it read
    issued,         \* the calls that returned, in the order of their returns
    earlier         \* the calls made before the first state, as a range

envVars == <<cfg, ctxDone>>
runVars == <<schemeIdx, results>>
fsVars == <<scratch, chunkFiles, metaFiles>>
loopVars == <<man, totalGenerated, totalUniqueSum, chunkIndex>>
chunkVars == <<chunkTarget, chunkIDs, unique, chunkHash, wpos, wbuf>>
mergeVars == <<midx, readers, h, prevValue, hasPrev, mUnique, mDuplicates,
               processed>>
histVars == <<genBatches, genCalls, fsynced, hashChecked, tampered, verified,
              manHist, popLog, memSeen, printed, handles>>

uidVars == <<customUIDState, clock, callers, issued, earlier>>

vars == <<envVars, pc, err, runVars, fsVars, loopVars, chunkVars, vidx,
          mergeVars, histVars, uidVars>>

\* memSeen before any reading.
NoReading == [chunk |-> -1, target |-> 0, available |-> 0]

NoManifest == [Scheme |-> "", Scale |-> 0, ChunkSize |-> 0,
               ApproxBytesPerID |-> 0, Chunks |-> <<>>]

KnownSchemes == {"nanoid16", "nanoid", "ulid", "ksuid", "customuid", "custom"}

\* The configurations Run is called with.
Configs ==
    [Schemes : {<<"ulid">>},
     Scale : 0..MaxScale,
     ChunkSize : 0..(MaxScale + 1),
     KeepTempData : BOOLEAN,
     LogInterval : {0},
     Verbose : {FALSE},
     ApproxBytesPerID : {0},
     MemGuardMB : MemGuardChoices]

\* Scheme lists: known names, a name generatorFor does not know, alone, first
\* and last.
SchemeLists == { <<"bogus">>, <<"ulid", "bogus">>, <<"bogus", "ulid">>,
                 <<"ulid", "ksuid">> }

\* The configurations of the runs over a list of schemes.
ListConfigs ==
    [Schemes : SchemeLists,
     Scale : 0..MaxListScale,
     ChunkSize : 0..MaxListScale,
     KeepTempData : BOOLEAN,
     LogInterval : {0},
     Verbose : {FALSE},
     ApproxBytesPerID : {0},
     MemGuardMB : MemGuardChoices]

\* The configurations of the runs that differ in their progress reporting;
\* the scratch directory is kept so that the chunk files outlast the run.
ProgressConfigs ==
    [Schemes : {<<"ulid">>},
     Scale : 1..MaxScale,
     ChunkSize : 0..MaxScale,
     KeepTempData : {TRUE},
     LogInterval : {0, 1, 2},
     Verbose : BOOLEAN,
     ApproxBytesPerID : {0},
     MemGuardMB : MemGuardChoices]

\* The locals of runScheme and mergeChunks hold these values outside a call.
LocalsCleared ==
    /\ man' = NoManifest
    /\ totalGenerated' = 0 /\ totalUniqueSum' = 0 /\ chunkIndex' = 0
    /\ chunkTarget' = 0 /\ chunkIDs' = <<>> /\ unique' = <<>>
    /\ chunkHash' = Sha256Hex(<<>>)
    /\ wpos' = 0 /\ wbuf' = <<>>
    /\ vidx' = 0
    /\ midx' = 0 /\ readers' = <<>> /\ h' = {}
    /\ prevValue' = <<>> /\ hasPrev' = FALSE
    /\ mUnique' = 0 /\ mDuplicates' = 0 /\ processed' = 0

\* ------------------------------------------------ package tools: customuid

\* customUIDEpoch: 2025-10-01 00:00:00 UTC in Unix seconds.
customUIDEpoch == 1759248000

customUIDMaxCounter == 65535

customUIDRandomBits == 14

\* base32Chars, as character codes: "0123456789ABCDEFGHJKMNPQRSTVWXYZ"
base32Chars ==
    <<48, 49, 50, 51, 52, 53, 54, 55, 56, 57, 65, 66, 67, 68, 69, 70,
      71, 72, 74, 75, 77, 78, 80, 81, 82, 83, 84, 86, 87, 88, 89, 90>>

\* Callers of GenerateCustomUID, calls in all, and ticks of the clock.
NumCallers == 3
MaxCalls == 4
MaxTicks == 1

Callers == 1..NumCallers

\* What rand.Read may put in randomBytes, read as binary.BigEndian.Uint16.
RandPool == {0, 3, 4}

\* randomBase = uint32(Uint16(randomBytes)) >> 2, then & 0x3FFF
randomBase(r) == (r \div 4) % 16384

\* combinedRandom := (counter << customUIDRandomBits) | randomBase, where
\* randomBase has no bit above the fourteenth.
combinedRandom(counter, base) == counter * (2 ^ customUIDRandomBits) + base

\* idBytes, as five big-endian words of sixteen bits: the eight bytes of
\* combinedHigh = timestampSec << 30 | combinedRandom >> 16, a uint64 that
\* keeps the low 34 bits of the timestamp, and the two of combinedLow.
idBytes(timestampSec, combined) ==
    << (timestampSec \div 262144) % 65536,
       (timestampSec \div 4) % 65536,
       (timestampSec % 4) * 16384,
       combined \div 65536,
       combined % 65536 >>

\* The eighty bits of idBytes, the highest first.
idBits(words) ==
    [k \in 1..80 |->
        (words[((k - 1) \div 16) + 1] \div (2 ^ (15 - ((k - 1) % 16)))) % 2]

\* encodeBase32_16: sixteen characters, one for each five bits.
encodeBase32_16(words) ==
    LET bits == idBits(words)
    IN  [j \in 1..16 |->
            base32Chars[1 + 16 * bits[5 * j - 4] + 8 * bits[5 * j - 3]
                          + 4 * bits[5 * j - 2] + 2 * bits[5 * j - 1]
                          + bits[5 * j]]]

\* The identifier GenerateCustomUID returns for a second read from the
\* clock, a counter and a random base.  The seconds of the model are far
\* below maxTimestamp, so that the clamp to it never acts.
CustomUID(now, counter, base) ==
    encodeBase32_16(idBytes(now - customUIDEpoch,
                            combinedRandom(counter, base)))

\* customUIDState before any call: the zero value.
ZeroUIDState == [lastSecond |-> 0, counter |-> 0, randomBase |-> 0]

\* No call was made before the first state.
NoEarlier == [now |-> 0, randomBase |-> 0, upto |-> 0]

AllIdle == [p \in Callers |-> [pc |-> "idle", now |-> 0]]

\* GenerateCustomUID not in use.
UidIdle ==
    /\ customUIDState = ZeroUIDState
    /\ clock = customUIDEpoch
    /\ callers = AllIdle
    /\ issued = <<>>
    /\ earlier = NoEarlier

\* The state of a call of Run at its entry, but for the configuration.
AtEntry ==
    /\ ctxDone = FALSE
    /\ pc = "start"
    /\ err = ""
    /\ schemeIdx = 0
    /\ results = <<>>
    /\ scratch = FALSE
    /\ chunkFiles = <<>>
    /\ metaFiles = NoMetaFiles
    /\ man = NoManifest
    /\ totalGenerated = 0 /\ totalUniqueSum = 0 /\ chunkIndex = 0
    /\ chunkTarget = 0 /\ chunkIDs = <<>> /\ unique = <<>>
    /\ chunkHash = Sha256Hex(<<>>)
    /\ wpos = 0 /\ wbuf = <<>>
    /\ vidx = 0
    /\ midx = 0 /\ readers = <<>> /\ h = {}
    /\ prevValue = <<>> /\ hasPrev = FALSE
    /\ mUnique = 0 /\ mDuplicates = 0 /\ processed = 0
    /\ genBatches = <<>> /\ genCalls = 0
    /\ fsynced = {} /\ hashChecked = {} /\ tampered = {} /\ verified = {}
    /\ manHist = NoManifest
    /\ popLog = <<>>
    /\ memSeen = NoReading
    /\ printed = <<>>
    /\ handles = <<>>

Init == cfg \in Configs /\ AtEntry /\ UidIdle

\* A return that hands back the results gathered so far.
ReturnOnErrorPartial(rs) == rs

\* return nil, err: the results Run returns with an error.
ReturnOnError(rs) == <<>>

\* A deferral registered when retention is requested.
DeferRemoveAllOnKeep(c) == c.KeepTempData

\* if !cfg.KeepTempData { defer os.RemoveAll(tempDir) }
DeferRemoveAll(c) == ~c.KeepTempData

\* runScheme returns an error and Run returns (nil, err).  When tempDir was
\* created and KeepTempData is unset, the deferred os.RemoveAll(tempDir) runs;
\* cf and mf are the files as the failing step left them.
Fail(e, cf, mf) ==
    /\ pc' = "failed"
    /\ err' = e
    /\ results' = ReturnOnError(results)
    /\ schemeIdx' = schemeIdx
    /\ IF scratch /\ DeferRemoveAll(cfg)
       THEN scratch' = FALSE /\ chunkFiles' = <<>> /\ metaFiles' = NoMetaFiles
       ELSE scratch' = scratch /\ chunkFiles' = cf /\ metaFiles' = mf
    /\ LocalsCleared

\* ------------------------------------------------------------------ Run

\* A log interval taken as it was configured.
LogIntervalAsGiven(n) == n

\* if cfg.LogInterval <= 0 { cfg.LogInterval = 1_000_000 }
LogIntervalOrDefault(n) == IF n <= 0 THEN DefaultLogInterval ELSE n

\* Run, up to its loop over the schemes: defaults and validation.
RunStart ==
    /\ pc = "start"
    /\ IF cfg.Scale <= 0
       THEN /\ pc' = "failed" /\ err' = "config: scale must be > 0"
            /\ UNCHANGED <<cfg, schemeIdx>>
       ELSE /\ cfg' = [cfg EXCEPT
                  !.Schemes = IF Len(cfg.Schemes) = 0
                              THEN <<"nanoid16", "ulid", "ksuid">>
                              ELSE cfg.Schemes,
                  !.ChunkSize = IF cfg.ChunkSize <= 0 \/ cfg.ChunkSize > cfg.Scale
                                THEN minInt64(cfg.Scale, DefaultChunkCap)
                                ELSE cfg.ChunkSize,
                  !.ApproxBytesPerID = IF cfg.ApproxBytesPerID <= 0
                                       THEN defaultApproxBytesPerID
                                       ELSE cfg.ApproxBytesPerID,
                  !.LogInterval = LogIntervalOrDefault(cfg.LogInterval)]
            /\ schemeIdx' = 1
            /\ pc' = "scheme_next"
            /\ err' = err
    /\ UNCHANGED uidVars
    /\ UNCHANGED <<ctxDone, results, fsVars, loopVars, chunkVars, vidx,
                   mergeVars, histVars>>

\* One turn of Run's loop: the cancellation check, then the call of
\* runScheme; past the last scheme Run returns the results.
SchemeNext ==
    /\ pc = "scheme_next"
    /\ IF schemeIdx > Len(cfg.Schemes)
       THEN /\ pc' = "done"
            /\ UNCHANGED <<err, results, fsVars, loopVars, chunkVars, vidx,
                           mergeVars>>
       ELSE IF ctxDone
       THEN /\ pc' = "failed" /\ err' = "cancelled"
            /\ results' = ReturnOnError(results)
            /\ UNCHANGED <<fsVars, loopVars, chunkVars, vidx, mergeVars>>
       ELSE /\ pc' = "rs_begin"
            /\ UNCHANGED <<err, results, fsVars, loopVars, chunkVars, vidx,
                           mergeVars>>
    /\ UNCHANGED uidVars
    /\ UNCHANGED <<envVars, schemeIdx, histVars>>

\* generatorFor(scheme)
generatorFor(name) == name \in KnownSchemes

\* runScheme up to the creation of tempDir.
RsBegin ==
    /\ pc = "rs_begin"
    /\ \/ /\ ~generatorFor(cfg.Schemes[schemeIdx])
          /\ Fail("config: unknown scheme", chunkFiles, metaFiles)
          /\ UNCHANGED histVars
       \/ /\ generatorFor(cfg.Schemes[schemeIdx])
          /\ Fail("io: create temp dir", chunkFiles, metaFiles)
          /\ UNCHANGED histVars
       \/ /\ generatorFor(cfg.Schemes[schemeIdx])
          /\ scratch' = TRUE
          /\ chunkFiles' = <<>>
          /\ metaFiles' = NoMetaFiles
          /\ pc' = "ensure_disk"
          /\ genBatches' = <<>> /\ genCalls' = 0
          /\ fsynced' = {} /\ hashChecked' = {} /\ tampered' = {}
          /\ verified' = {} /\ manHist' = NoManifest /\ popLog' = <<>>
          /\ memSeen' = NoReading
          /\ handles' = <<>>
          /\ UNCHANGED <<err, runVars, loopVars, chunkVars, vidx, mergeVars,
                         printed>>
    /\ UNCHANGED uidVars
    /\ UNCHANGED envVars

\* ensureDisk's comparison, with the default safety factor 1.25.
ensureDisk(free, estimatedBytes) == free * 4 >= estimatedBytes * 5

\* Free disk space (bytes) the operating system may report.
DiskLevels == {0, MiB}

\* runScheme: the disk guard and the construction of the manifest.
EnsureDisk ==
    /\ pc = "ensure_disk"
    /\ \/ Fail("io: read disk usage", chunkFiles, metaFiles)
       \/ \E free \in DiskLevels :
            IF ensureDisk(free, cfg.Scale * cfg.ApproxBytesPerID)
            THEN /\ man' = [Scheme |-> cfg.Schemes[schemeIdx],
                           Scale |-> cfg.Scale,
                           ChunkSize |-> cfg.ChunkSize,
                           ApproxBytesPerID |-> cfg.ApproxBytesPerID,
                           Chunks |-> <<>>]
                 /\ totalGenerated' = 0 /\ totalUniqueSum' = 0
                 /\ chunkIndex' = 0
                 /\ pc' = "chunk_loop"
                 /\ UNCHANGED <<err, runVars, fsVars, chunkVars, vidx,
                                mergeVars>>
            ELSE Fail("resource: insufficient disk space", chunkFiles,
                      metaFiles)
    /\ UNCHANGED uidVars
    /\ UNCHANGED <<envVars, histVars>>

\* A guard that forgets the margin.
ensureMemoryNoMargin(c, target, available) ==
    available >= target * c.ApproxBytesPerID

\* ensureMemory(cfg, chunkTarget), given the available memory in bytes.
ensureMemory(c, target, available) ==
    LET needed == target * c.ApproxBytesPerID
        threshold == IF needed + c.MemGuardMB * MiB = 0
                     THEN needed ELSE needed + c.MemGuardMB * MiB
    IN IF needed <= 0 /\ c.MemGuardMB <= 0 THEN TRUE
       ELSE available >= threshold

\* A chunk target that ignores what is left to generate.
ChunkTargetWhole(c, generated) == c.ChunkSize

\* chunkTarget := minInt64(cfg.ChunkSize, cfg.Scale-totalGenerated)
ChunkTarget(c, generated) == minInt64(c.ChunkSize, c.Scale - generated)

\* Head of the chunk loop: loop condition, cancellation check, chunk target,
\* memory guard, allocation of the batch.
ChunkLoop ==
    /\ pc = "chunk_loop"
    /\ IF totalGenerated < cfg.Scale
       THEN IF ctxDone
            THEN Fail("cancelled", chunkFiles, metaFiles) /\ UNCHANGED histVars
            ELSE \/ /\ Fail("io: read memory info", chunkFiles, metaFiles)
                    /\ UNCHANGED histVars
                 \/ \E available \in MemLevels :
                      /\ memSeen' = [chunk |-> chunkIndex,
                                     target |-> ChunkTarget(cfg, totalGenerated),
                                     available |-> available]
                      /\ UNCHANGED <<genCalls, fsynced, hashChecked, tampered,
                                     verified, manHist, popLog, printed,
                                     handles>>
                      /\ IF ensureMemory(cfg,
                                         ChunkTarget(cfg, totalGenerated),
                                         available)
                         THEN /\ chunkTarget' =
                                   ChunkTarget(cfg, totalGenerated)
                              /\ chunkIDs' = <<>>
                              /\ genBatches' = Append(genBatches, {})
                              /\ pc' = "gen"
                              /\ UNCHANGED <<err, runVars, fsVars, loopVars,
                                             unique, chunkHash, wpos, wbuf,
                                             vidx, mergeVars>>
                         ELSE /\ Fail("resource: insufficient memory",
                                      chunkFiles, metaFiles)
                              /\ UNCHANGED genBatches
       ELSE /\ pc' = "verify"
            /\ vidx' = 1
            /\ UNCHANGED <<err, runVars, fsVars, loopVars, chunkVars,
                           mergeVars, histVars>>
    /\ UNCHANGED uidVars
    /\ UNCHANGED envVars

\* chunkIDs = append(chunkIDs, gen())
Generate ==
    /\ pc = "gen"
    /\ Len(chunkIDs) < chunkTarget
    /\ \E v \in GenPool :
         /\ chunkIDs' = Append(chunkIDs, v)
         /\ genBatches' = [genBatches EXCEPT
                             ![Len(genBatches)] = @ \cup {v}]
    /\ genCalls' = genCalls + 1
    /\ UNCHANGED uidVars
    /\ UNCHANGED <<envVars, pc, err, runVars, fsVars, loopVars, chunkTarget,
                   unique, chunkHash, wpos, wbuf, vidx, mergeVars, fsynced,
                   hashChecked, tampered, verified, manHist, popLog,
                   memSeen, printed, handles>>

\* sort.Strings(chunkIDs); unique := dedupeSorted(chunkIDs);
\* chunkHash := hashStrings(unique)
Produce ==
    /\ pc = "gen"
    /\ Len(chunkIDs) >= chunkTarget
    /\ chunkIDs' = SortStrings(chunkIDs)
    /\ unique' = dedupeSorted(SortStrings(chunkIDs))
    /\ chunkHash' = hashStrings(dedupeSorted(SortStrings(chunkIDs)))
    /\ pc' = "wcf_create"
    /\ UNCHANGED uidVars
    /\ UNCHANGED <<envVars, err, runVars, fsVars, loopVars, chunkTarget,
                   wpos, wbuf, vidx, mergeVars, histVars>>

\* ------------------------------------------------------------ writeChunkFile

CurFile == chunkIndex + 1

\* os.Create(path): the chunk file exists and is empty.
WcfCreate ==
    /\ pc = "wcf_create"
    /\ \/ /\ Fail("io: create chunk", chunkFiles, metaFiles)
       \/ /\ chunkFiles' = Append(chunkFiles, [data |-> <<>>, synced |-> FALSE])
          /\ wpos' = 1
          /\ wbuf' = <<>>
          /\ pc' = "wcf_write"
          /\ UNCHANGED <<err, runVars, scratch, metaFiles, loopVars,
                         chunkTarget, chunkIDs, unique, chunkHash, vidx,
                         mergeVars>>
    /\ UNCHANGED uidVars
    /\ UNCHANGED <<envVars, histVars>>

\* One turn of the write loop.  The buffered writer hands its buffer to the
\* file whenever it is full, which at these sizes may be before any record.
WcfWrite ==
    /\ pc = "wcf_write"
    /\ wpos <= Len(unique)
    /\ \/ /\ wbuf' = WriteRecord(wbuf, unique[wpos])
          /\ wpos' = wpos + 1
          /\ UNCHANGED <<pc, err, runVars, fsVars, loopVars, chunkTarget,
                         chunkIDs, unique, chunkHash, vidx, mergeVars>>
       \/ /\ wbuf # <<>>
          /\ chunkFiles' = [chunkFiles EXCEPT ![CurFile].data = @ \o wbuf]
          /\ wbuf' = WriteRecord(<<>>, unique[wpos])
          /\ wpos' = wpos + 1
          /\ UNCHANGED <<pc, err, runVars, scratch, metaFiles, loopVars,
                         chunkTarget, chunkIDs, unique, chunkHash, vidx,
                         mergeVars>>
       \/ /\ wbuf # <<>>
          /\ Fail("io: write chunk", chunkFiles, metaFiles)
    /\ UNCHANGED uidVars
    /\ UNCHANGED <<envVars, histVars>>

\* writer.Flush()
WcfFlush ==
    /\ pc = "wcf_write"
    /\ wpos > Len(unique)
    /\ \/ /\ Fail("io: flush chunk", chunkFiles, metaFiles)
       \/ /\ chunkFiles' = [chunkFiles EXCEPT ![CurFile].data = @ \o wbuf]
          /\ wbuf' = <<>>
          /\ pc' = "wcf_sync"
          /\ UNCHANGED <<err, runVars, scratch, metaFiles, loopVars,
                         chunkTarget, chunkIDs, unique, chunkHash, wpos, vidx,
                         mergeVars>>
    /\ UNCHANGED uidVars
    /\ UNCHANGED <<envVars, histVars>>

\* f.Sync(), then the deferred f.Close() and the return of nil.
WcfSync ==
    /\ pc = "wcf_sync"
    /\ \/ /\ Fail("io: sync chunk", chunkFiles, metaFiles)
          /\ UNCHANGED histVars
       \/ /\ chunkFiles' = [chunkFiles EXCEPT ![CurFile].synced = TRUE]
          /\ fsynced' = fsynced \cup {chunkIndex}
          /\ pc' = "hash_file"
          /\ UNCHANGED <<err, runVars, scratch, metaFiles, loopVars,
                         chunkVars, vidx, mergeVars, genBatches, genCalls,
                         hashChecked, tampered, verified, manHist, popLog,
                         memSeen, printed, handles>>
    /\ UNCHANGED uidVars
    /\ UNCHANGED envVars

\* A comparison that accepts every file.
IntegrityOKAlways(fileHash, memHash) == TRUE

\* fileHash == chunkHash (the negation of runScheme's mismatch test)
IntegrityOK(fileHash, memHash) == fileHash = memHash

\* fileHash, err := hashFile(chunkPath) and the comparison with chunkHash.
HashFile ==
    /\ pc = "hash_file"
    /\ \/ /\ Fail("io: hash chunk", chunkFiles, metaFiles)
          /\ UNCHANGED histVars
       \/ IF IntegrityOK(hashFile(chunkFiles[CurFile].data), chunkHash)
          THEN /\ pc' = "stat"
               /\ hashChecked' =
                    IF chunkFiles[CurFile].data = HashInput(unique)
                    THEN hashChecked \cup {chunkIndex} ELSE hashChecked
               /\ UNCHANGED <<err, runVars, fsVars, loopVars, chunkVars, vidx,
                              mergeVars, genBatches, genCalls, fsynced,
                              tampered, verified, manHist, popLog,
                              memSeen, printed, handles>>
          ELSE /\ Fail("integrity: chunk hash mismatch", chunkFiles, metaFiles)
               /\ UNCHANGED histVars
    /\ UNCHANGED uidVars
    /\ UNCHANGED envVars

\* The chunkMeta runScheme builds (CreatedAt left out).
ChunkMeta(size) ==
    [Index |-> chunkIndex, Path |-> chunkIndex,
     UniqueCount |-> Len(unique), OriginalCount |-> chunkTarget,
     Hash |-> chunkHash, SizeBytes |-> size]

\* os.Stat(chunkPath) and man.Chunks = append(man.Chunks, meta)
StatAppend ==
    /\ pc = "stat"
    /\ \/ /\ Fail("io: stat chunk", chunkFiles, metaFiles)
          /\ UNCHANGED manHist
       \/ /\ man' = [man EXCEPT !.Chunks =
                        Append(@, ChunkMeta(Len(chunkFiles[CurFile].data)))]
          /\ manHist' = man'
          /\ pc' = "sm_tmp_open"
          /\ UNCHANGED <<err, runVars, fsVars, totalGenerated, totalUniqueSum,
                         chunkIndex, chunkVars, vidx, mergeVars>>
    /\ UNCHANGED uidVars
    /\ UNCHANGED <<envVars, genBatches, genCalls, fsynced, hashChecked,
                   tampered, verified, popLog, memSeen, printed, handles>>

\* ------------------------------------------------------------ saveManifest

Prefixes(data) == { SubSeq(data, 1, n) : n \in 0..Len(data) }

\* os.WriteFile(tmp, data, 0o644), first half: the file is opened, created
\* or truncated.
SmTmpOpen ==
    /\ pc = "sm_tmp_open"
    /\ \/ /\ Fail("io: write manifest", chunkFiles, metaFiles)
       \/ /\ metaFiles' = [metaFiles EXCEPT
                             ![TmpPath] = [exists |-> TRUE, data |-> <<>>]]
          /\ pc' = "sm_tmp_write"
          /\ UNCHANGED <<err, runVars, scratch, chunkFiles, loopVars,
                         chunkVars, vidx, mergeVars>>
    /\ UNCHANGED uidVars
    /\ UNCHANGED <<envVars, histVars>>

\* os.WriteFile(tmp, data, 0o644): write and close; a failed write may
\* leave any part of the data behind.
SmTmpWrite ==
    /\ pc = "sm_tmp_write"
    /\ \/ \E part \in Prefixes(Marshal(man)) :
            Fail("io: write manifest", chunkFiles,
                 [metaFiles EXCEPT ![TmpPath].data = part])
       \/ /\ metaFiles' = [metaFiles EXCEPT ![TmpPath].data = Marshal(man)]
          /\ pc' = "sm_rename"
          /\ UNCHANGED <<err, runVars, scratch, chunkFiles, loopVars,
                         chunkVars, vidx, mergeVars>>
    /\ UNCHANGED uidVars
    /\ UNCHANGED <<envVars, histVars>>

\* os.Rename(tmp, manifest.json)
SmRename ==
    /\ pc = "sm_rename"
    /\ \/ /\ Fail("io: rename manifest", chunkFiles, metaFiles)
       \/ /\ metaFiles' =
               IF TmpPath = "manifest" THEN metaFiles
               ELSE [metaFiles EXCEPT !["manifest"] = metaFiles[TmpPath],
                                      ![TmpPath] = NoFile]
          /\ pc' = "sm_side_open"
          /\ UNCHANGED <<err, runVars, scratch, chunkFiles, loopVars,
                         chunkVars, vidx, mergeVars>>
    /\ UNCHANGED uidVars
    /\ UNCHANGED <<envVars, histVars>>

\* os.WriteFile(manifest.json.sha256, hex, 0o644), first half: the sidecar
\* is opened, created or truncated.
SmSideOpen ==
    /\ pc = "sm_side_open"
    /\ \/ /\ Fail("io: write sidecar", chunkFiles, metaFiles)
       \/ /\ metaFiles' = [metaFiles EXCEPT
                             !["sidecar"] = [exists |-> TRUE, data |-> <<>>]]
          /\ pc' = "sm_side_write"
          /\ UNCHANGED <<err, runVars, scratch, chunkFiles, loopVars,
                         chunkVars, vidx, mergeVars>>
    /\ UNCHANGED uidVars
    /\ UNCHANGED <<envVars, histVars>>

\* cfg.Verbose && totalGenerated%cfg.LogInterval == 0
ProgressDue(verbose, logInterval, n) == verbose /\ n % logInterval = 0

\* os.WriteFile(manifest.json.sha256, hex, 0o644): write and close; then, in
\* runScheme, the counters of the finished chunk and its progress line.  The
\* remainder by a zero interval is a run-time panic.
SmSideWrite ==
    /\ pc = "sm_side_write"
    /\ \/ /\ Fail("io: write sidecar", chunkFiles, metaFiles)
          /\ UNCHANGED printed
       \/ IF cfg.Verbose /\ cfg.LogInterval = 0
          THEN /\ Fail("panic: integer divide by zero", chunkFiles,
                       [metaFiles EXCEPT
                          !["sidecar"].data = <<Sha256Hex(Marshal(man))>>])
               /\ UNCHANGED printed
          ELSE /\ metaFiles' = [metaFiles EXCEPT
                     !["sidecar"].data = <<Sha256Hex(Marshal(man))>>]
               /\ totalGenerated' = totalGenerated + chunkTarget
               /\ totalUniqueSum' = totalUniqueSum + Len(unique)
               /\ chunkIndex' = chunkIndex + 1
               /\ printed' =
                    IF ProgressDue(cfg.Verbose, cfg.LogInterval,
                                   totalGenerated + chunkTarget)
                    THEN Append(printed,
                                [line |-> "generated",
                                 n |-> totalGenerated + chunkTarget])
                    ELSE printed
               /\ chunkTarget' = 0 /\ chunkIDs' = <<>> /\ unique' = <<>>
               /\ chunkHash' = Sha256Hex(<<>>)
               /\ wpos' = 0 /\ wbuf' = <<>>
               /\ pc' = "chunk_loop"
               /\ UNCHANGED <<err, runVars, scratch, chunkFiles, man, vidx,
                              mergeVars>>
    /\ UNCHANGED uidVars
    /\ UNCHANGED <<envVars, genBatches, genCalls, fsynced, hashChecked,
                   tampered, verified, manHist, popLog, memSeen, handles>>

\* ------------------------------------------------------------ verifyChunks

\* A verification that accepts every chunk.
VerifyOKAlways(hash, recorded) == TRUE

\* hash == ch.Hash (the negation of verifyChunks' mismatch test)
VerifyOK(hash, recorded) == hash = recorded

\* One turn of verifyChunks' loop; past the last chunk it returns nil and
\* runScheme calls mergeChunks.
VerifyChunk ==
    /\ pc = "verify"
    /\ IF vidx > Len(man.Chunks)
       THEN /\ pc' = "merge_open"
            /\ midx' = 1
            /\ vidx' = 0
            /\ UNCHANGED <<err, runVars, fsVars, loopVars, chunkVars, readers,
                           h, prevValue, hasPrev, mUnique, mDuplicates,
                           processed, histVars>>
       ELSE \/ /\ Fail("io: hash chunk", chunkFiles, metaFiles)
               /\ UNCHANGED histVars
            \/ IF VerifyOK(hashFile(chunkFiles[vidx].data),
                           man.Chunks[vidx].Hash)
               THEN /\ vidx' = vidx + 1
                    /\ verified' =
                         IF hashFile(chunkFiles[vidx].data)
                              = man.Chunks[vidx].Hash
                         THEN verified \cup {man.Chunks[vidx].Index}
                         ELSE verified
                    /\ UNCHANGED <<pc, err, runVars, fsVars, loopVars,
                                   chunkVars, mergeVars, genBatches, genCalls,
                                   fsynced, hashChecked, tampered, manHist,
                                   popLog, memSeen, printed, handles>>
               ELSE /\ Fail("corruption: chunk hash mismatch", chunkFiles,
                            metaFiles)
                    /\ UNCHANGED histVars
    /\ UNCHANGED uidVars
    /\ UNCHANGED envVars

\* ------------------------------------------------------------ mergeChunks

\* os.Open(meta.Path) returned f: one more handle, not yet closed.
Opened(hs, idx) == Append(hs, [chunk |-> idx, closes |-> 0])

\* file.Close() on the handle of chunk idx.
Closed(hs, idx) ==
    [k \in 1..Len(hs) |->
       IF hs[k].chunk = idx THEN [hs[k] EXCEPT !.closes = @ + 1] ELSE hs[k]]

\* A release that passes over the cursors already at their end.
closeAllUnexhausted(hs, rs) ==
    [k \in 1..Len(hs) |->
       IF \E j \in 1..Len(rs) : rs[j].meta = hs[k].chunk /\ ~rs[j].eof
       THEN [hs[k] EXCEPT !.closes = @ + 1] ELSE hs[k]]

\* for _, r := range readers { r.close() }
closeAll(hs, rs) ==
    [k \in 1..Len(hs) |->
       IF \E j \in 1..Len(rs) : rs[j].meta = hs[k].chunk
       THEN [hs[k] EXCEPT !.closes = @ + 1] ELSE hs[k]]

\* One turn of the loop that opens a cursor per chunk: os.Open fails, or the
\* first advance fails and newChunkReader closes the file, in both cases the
\* cursors opened so far are closed; or the cursor is handed out, and closed
\* at once when its chunk holds no value.
MergeOpen ==
    /\ pc = "merge_open"
    /\ midx <= Len(man.Chunks)
    /\ \/ /\ Fail("io: open chunk", chunkFiles, metaFiles)
          /\ handles' = closeAll(handles, readers)
       \/ /\ Fail("io: read chunk", chunkFiles, metaFiles)
          /\ handles' = closeAll(Closed(Opened(handles, midx - 1), midx - 1),
                                 readers)
       \/ /\ readers' =
               IF newChunkReader(midx - 1, chunkFiles[midx].data).eof
               THEN readers
               ELSE Append(readers,
                           newChunkReader(midx - 1, chunkFiles[midx].data))
          /\ handles' =
               IF newChunkReader(midx - 1, chunkFiles[midx].data).eof
               THEN Closed(Opened(handles, midx - 1), midx - 1)
               ELSE Opened(handles, midx - 1)
          /\ midx' = midx + 1
          /\ UNCHANGED <<pc, err, runVars, fsVars, loopVars, chunkVars, vidx,
                         h, prevValue, hasPrev, mUnique, mDuplicates,
                         processed>>
    /\ UNCHANGED uidVars
    /\ UNCHANGED <<envVars, genBatches, genCalls, fsynced, hashChecked,
                   tampered, verified, manHist, popLog, memSeen, printed>>

\* The heap is seeded with one entry per cursor; heap.Init orders it.
HeapInit ==
    /\ pc = "merge_open"
    /\ midx > Len(man.Chunks)
    /\ IF Len(man.Chunks) = 0 \/ Len(readers) = 0
       THEN Fail("merge: no chunks", chunkFiles, metaFiles)
       ELSE /\ h' = { [value |-> readers[i].value, reader |-> i] :
                        i \in 1..Len(readers) }
            /\ prevValue' = <<>> /\ hasPrev' = FALSE
            /\ mUnique' = 0 /\ mDuplicates' = 0 /\ processed' = 0
            /\ pc' = "merge_loop"
            /\ UNCHANGED <<err, runVars, fsVars, loopVars, chunkVars, vidx,
                           midx, readers>>
    /\ UNCHANGED uidVars
    /\ UNCHANGED <<envVars, histVars>>

\* A classification that never recognises a repeated value.
IsDuplicateNever(value) == FALSE

\* hasPrev && entry.value == prevValue
IsDuplicate(value) == hasPrev /\ value = prevValue

\* verbose && logInterval > 0 && processed%logInterval == 0
MergeProgressDue(verbose, logInterval, n) ==
    verbose /\ logInterval > 0 /\ n % logInterval = 0

\* A loop head that never looks at ctx.
MergeCheckBlind ==
    /\ pc = "merge_loop"
    /\ h # {}
    /\ pc' = "merge_pop"
    /\ UNCHANGED <<err, runVars, fsVars, loopVars, chunkVars, vidx, mergeVars>>
    /\ UNCHANGED uidVars
    /\ UNCHANGED <<envVars, histVars>>

\* Head of one turn of the merge loop: the loop condition and the
\* cancellation check, whose return runs the deferred close of the cursors.
MergeCheck ==
    /\ pc = "merge_loop"
    /\ h # {}
    /\ IF ctxDone
       THEN /\ Fail("cancelled", chunkFiles, metaFiles)
            /\ handles' = closeAll(handles, readers)
       ELSE /\ pc' = "merge_pop"
            /\ UNCHANGED <<err, runVars, fsVars, loopVars, chunkVars, vidx,
                           mergeVars, handles>>
    /\ UNCHANGED uidVars
    /\ UNCHANGED <<envVars, genBatches, genCalls, fsynced, hashChecked,
                   tampered, verified, manHist, popLog, memSeen, printed>>

\* Body of one turn of the merge loop: pop, classification, progress line,
\* advance of the popped cursor, push of its next value.
MergeStep ==
    /\ pc = "merge_pop"
    /\ \E entry \in HeapMin(h) :
         /\ popLog' = Append(popLog, [value |-> entry.value,
                                      dup |-> IsDuplicate(entry.value)])
         /\ printed' =
              IF MergeProgressDue(cfg.Verbose, cfg.LogInterval, processed + 1)
              THEN Append(printed, [line |-> "merge", n |-> processed + 1])
              ELSE printed
         /\ \/ /\ Fail("io: read chunk", chunkFiles, metaFiles)
               /\ handles' = closeAll(handles, readers)
            \/ /\ IF IsDuplicate(entry.value)
                  THEN /\ mDuplicates' = mDuplicates + 1
                       /\ UNCHANGED <<mUnique, prevValue, hasPrev>>
                  ELSE /\ mUnique' = mUnique + 1
                       /\ prevValue' = entry.value
                       /\ hasPrev' = TRUE
                       /\ UNCHANGED mDuplicates
               /\ processed' = processed + 1
               /\ readers' = [readers EXCEPT ![entry.reader] = advance(@)]
               /\ h' = IF advance(readers[entry.reader]).eof
                       THEN h \ {entry}
                       ELSE (h \ {entry}) \cup
                            {[value |-> advance(readers[entry.reader]).value,
                              reader |-> entry.reader]}
               /\ pc' = "merge_loop"
               /\ UNCHANGED <<err, runVars, fsVars, loopVars, chunkVars,
                              vidx, midx, handles>>
    /\ UNCHANGED uidVars
    /\ UNCHANGED <<envVars, genBatches, genCalls, fsynced, hashChecked,
                   tampered, verified, manHist, memSeen>>

\* The Result runScheme returns (Duration and the paths left out).
MakeResult ==
    [Scheme |-> man.Scheme, Chunks |-> Len(man.Chunks),
     Generated |-> totalGenerated, ChunkUnique |-> totalUniqueSum,
     Unique |-> mUnique, Duplicates |-> mDuplicates]

\* The queue is empty: mergeChunks returns its counts and its deferred close
\* of the cursors runs, runScheme checks the counts against the chunk sum and
\* returns the Result, and Run appends it.
MergeFinish ==
    /\ pc = "merge_loop"
    /\ h = {}
    /\ IF totalUniqueSum # mUnique + mDuplicates
       THEN Fail("inconsistent counts", chunkFiles, metaFiles)
       ELSE /\ results' = Append(results, MakeResult)
            /\ schemeIdx' = schemeIdx + 1
            /\ pc' = "scheme_next"
            /\ err' = err
            /\ IF DeferRemoveAll(cfg)
               THEN /\ scratch' = FALSE /\ chunkFiles' = <<>>
                    /\ metaFiles' = NoMetaFiles
               ELSE UNCHANGED fsVars
            /\ LocalsCleared
    /\ handles' = closeAll(handles, readers)
    /\ UNCHANGED uidVars
    /\ UNCHANGED <<envVars, genBatches, genCalls, fsynced, hashChecked,
                   tampered, verified, manHist, popLog, memSeen, printed>>

\* ------------------------------------------------------------ environment

Running == pc \notin {"start", "done", "failed"}

\* The caller cancels the context.
Cancel ==
    /\ Running
    /\ ~ctxDone
    /\ ctxDone' = TRUE
    /\ UNCHANGED uidVars
    /\ UNCHANGED <<cfg, pc, err, runVars, fsVars, loopVars, chunkVars, vidx,
                   mergeVars, genBatches, genCalls, fsynced, hashChecked,
                   tampered, verified, manHist, popLog, memSeen, printed,
                   handles>>

\* A storage fault changes one byte of one chunk file, once in a run, while
\* the file may still be read.
Corrupt ==
    /\ Running
    /\ pc \notin {"merge_loop", "merge_pop"}
    /\ tampered = {}
    /\ \E i \in 1..Len(chunkFiles) :
         \E p \in 1..Len(chunkFiles[i].data) :
           \E b \in ByteAlphabet \ {chunkFiles[i].data[p]} :
             /\ chunkFiles' = [chunkFiles EXCEPT ![i].data[p] = b]
             /\ tampered' = {i - 1}
    /\ UNCHANGED uidVars
    /\ UNCHANGED <<envVars, pc, err, runVars, scratch, metaFiles, loopVars,
                   chunkVars, vidx, mergeVars, genBatches, genCalls, fsynced,
                   hashChecked, verified, manHist, popLog, memSeen, printed,
                   handles>>

\* A storage fault loses the content of one chunk file, once in a run, while
\* the file may still be read.
Truncate ==
    /\ Running
    /\ pc \notin {"merge_loop", "merge_pop"}
    /\ tampered = {}
    /\ \E i \in 1..Len(chunkFiles) :
         /\ chunkFiles[i].data # <<>>
         /\ chunkFiles' = [chunkFiles EXCEPT ![i].data = <<>>]
         /\ tampered' = {i - 1}
    /\ UNCHANGED uidVars
    /\ UNCHANGED <<envVars, pc, err, runVars, scratch, metaFiles, loopVars,
                   chunkVars, vidx, mergeVars, genBatches, genCalls, fsynced,
                   hashChecked, verified, manHist, popLog, memSeen, printed,
                   handles>>

Next ==
    \/ RunStart \/ SchemeNext \/ RsBegin \/ EnsureDisk \/ ChunkLoop
    \/ Generate \/ Produce
    \/ WcfCreate \/ WcfWrite \/ WcfFlush \/ WcfSync \/ HashFile \/ StatAppend
    \/ SmTmpOpen \/ SmTmpWrite \/ SmRename \/ SmSideOpen \/ SmSideWrite
    \/ VerifyChunk \/ MergeOpen \/ HeapInit \/ MergeCheck \/ MergeStep
    \/ MergeFinish
    \/ Cancel \/ Corrupt

Spec == Init /\ [][Next]_vars

\* The steps of the program alone: no cancellation, no storage fault.
NextProgram ==
    \/ RunStart \/ SchemeNext \/ RsBegin \/ EnsureDisk \/ ChunkLoop
    \/ Generate \/ Produce
    \/ WcfCreate \/ WcfWrite \/ WcfFlush \/ WcfSync \/ HashFile \/ StatAppend
    \/ SmTmpOpen \/ SmTmpWrite \/ SmRename \/ SmSideOpen \/ SmSideWrite
    \/ VerifyChunk \/ MergeOpen \/ HeapInit \/ MergeCheck \/ MergeStep
    \/ MergeFinish

\* Run called with and without progress reporting, left undisturbed.
InitProgress == cfg \in ProgressConfigs /\ AtEntry /\ UidIdle

SpecProgress == InitProgress /\ [][NextProgram]_vars

\* Run with cancellation and with the storage fault that empties a file.
NextTruncate == NextProgram \/ Cancel \/ Truncate

SpecTruncate == Init /\ [][NextTruncate]_vars

\* Run called with a list of schemes.
InitList == cfg \in ListConfigs /\ AtEntry /\ UidIdle

SpecList == InitList /\ [][Next]_vars

\* -------------------------------------------------------- GenerateCustomUID

\* Everything Run and its callees hold, which GenerateCustomUID leaves alone.
runState == <<envVars, pc, err, runVars, fsVars, loopVars, chunkVars, vidx,
              mergeVars, histVars>>

\* A failed rand.Read panics, and the panic ends the program.
NoPanic == \A p \in Callers : callers[p].pc # "panicked"

\* The calls that returned and those under way.
CallsBegun ==
    Len(issued) + Cardinality({ p \in Callers : callers[p].pc # "idle" })

\* The next second begins.
Tick ==
    /\ NoPanic
    /\ clock < customUIDEpoch + 1 + MaxTicks
    /\ clock' = clock + 1
    /\ UNCHANGED <<customUIDState, callers, issued, earlier, runState>>

\* now := time.Now().Unix()
ReadClock(p) ==
    /\ NoPanic
    /\ callers[p].pc = "idle"
    /\ CallsBegun < MaxCalls
    /\ callers' = [callers EXCEPT ![p] = [pc |-> "lock", now |-> clock]]
    /\ UNCHANGED <<customUIDState, clock, issued, earlier, runState>>

\* customUIDState.Unlock() and the rest of the call: the identifier is built
\* from the caller's second, counter and random base, and returned.
Return(p, counter, base) ==
    /\ issued' = Append(issued,
                        [now |-> callers[p].now, counter |-> counter,
                         randomBase |-> base,
                         id |-> CustomUID(callers[p].now, counter, base)])
    /\ callers' = [callers EXCEPT ![p] = [pc |-> "idle", now |-> 0]]

\* customUIDState.counter = 1; counter = 1
wrappedCounter == 1

\* customUIDState.counter++ and the test against customUIDMaxCounter, with
\* the mutex held and the state st: past the maximum the mutex is released
\* for the read of new random bytes, otherwise the call returns the
\* incremented counter with the random base of the state.
Increment(p, st) ==
    IF st.counter + 1 > customUIDMaxCounter
    THEN /\ customUIDState' = [st EXCEPT !.counter = st.counter + 1]
         /\ callers' = [callers EXCEPT ![p].pc = "rand_wrap"]
         /\ UNCHANGED issued
    ELSE /\ customUIDState' = [st EXCEPT !.counter = st.counter + 1]
         /\ Return(p, st.counter + 1, st.randomBase)

\* customUIDState.Lock() and the test of the second: when it differs from
\* lastSecond the counter is reset and the mutex released for the read of
\* random bytes; otherwise the call goes on to the increment.
LockSecond(p) ==
    /\ NoPanic
    /\ callers[p].pc = "lock"
    /\ IF callers[p].now # customUIDState.lastSecond
       THEN /\ customUIDState' = [customUIDState EXCEPT
                                    !.lastSecond = callers[p].now,
                                    !.counter = 0]
            /\ callers' = [callers EXCEPT ![p].pc = "rand_reset"]
            /\ UNCHANGED issued
       ELSE Increment(p, customUIDState)
    /\ UNCHANGED <<clock, earlier, runState>>

\* rand.Read after the reset, then customUIDState.Lock(), the new random
\* base, and the increment.
RandReset(p) ==
    /\ NoPanic
    /\ callers[p].pc = "rand_reset"
    /\ \/ /\ callers' = [callers EXCEPT ![p].pc = "panicked"]
          /\ UNCHANGED <<customUIDState, issued>>
       \/ \E r \in RandPool :
            Increment(p, [customUIDState EXCEPT !.randomBase = randomBase(r)])
    /\ UNCHANGED <<clock, earlier, runState>>

\* rand.Read after the counter passed its maximum, then
\* customUIDState.Lock(), the new random base, and the counter set to one.
RandWrap(p) ==
    /\ NoPanic
    /\ callers[p].pc = "rand_wrap"
    /\ \/ /\ callers' = [callers EXCEPT ![p].pc = "panicked"]
          /\ UNCHANGED <<customUIDState, issued>>
       \/ \E r \in RandPool :
            /\ customUIDState' = [customUIDState EXCEPT
                                    !.randomBase = randomBase(r),
                                    !.counter = wrappedCounter]
            /\ Return(p, wrappedCounter, randomBase(r))
    /\ UNCHANGED <<clock, earlier, runState>>

\* The calls of one second that came one after the other before the first
\* state, all but two of those the counter can number: the first drew the
\* random base and each left the counter one higher.
Warmed(r) ==
    /\ customUIDState = [lastSecond |-> clock,
                         counter |-> customUIDMaxCounter - 1,
                         randomBase |-> randomBase(r)]
    /\ earlier = [now |-> clock, randomBase |-> randomBase(r),
                  upto |-> customUIDMaxCounter - 1]

\* The configuration of the run whose generator is GenerateCustomUID.
UidConfig ==
    [Schemes |-> <<"customuid">>, Scale |-> 1, ChunkSize |-> 1,
     KeepTempData |-> FALSE, LogInterval |-> 0, Verbose |-> FALSE,
     ApproxBytesPerID |-> 0, MemGuardMB |-> 512]

\* GenerateCustomUID before its first call, or after the calls of Warmed.
InitUID ==
    /\ cfg = UidConfig /\ AtEntry
    /\ clock = customUIDEpoch + 1
    /\ callers = AllIdle
    /\ issued = <<>>
    /\ \/ customUIDState = ZeroUIDState /\ earlier = NoEarlier
       \/ \E r \in RandPool : Warmed(r)

NextUID ==
    \/ Tick
    \/ \E p \in Callers : ReadClock(p)
    \/ \E p \in Callers : LockSecond(p)
    \/ \E p \in Callers : RandReset(p)
    \/ \E p \in Callers : RandWrap(p)

SpecUID == InitUID /\ [][NextUID]_vars

TypeOK ==
    /\ pc \in {"start", "scheme_next", "rs_begin", "ensure_disk",
               "chunk_loop", "gen", "wcf_create", "wcf_write", "wcf_sync",
               "hash_file", "stat", "sm_tmp_open", "sm_tmp_write",
               "sm_rename", "sm_side_open", "sm_side_write", "verify",
               "merge_open", "merge_loop", "merge_pop", "done", "failed"}
    /\ ctxDone \in BOOLEAN
    /\ genCalls \in 0..MaxScale

\* ------------------------------------------------------------ properties

\* Every value the generator returned in the current scheme run.
GenSet == UNION Range(genBatches)

NoTerminators == \A v \in GenSet : ~HasLineTerminator(v)

RECURSIVE SumCard(_)
\* Sum of the numbers of distinct values of the batches.
SumCard(batches) ==
    IF batches = <<>> THEN 0
    ELSE Cardinality(Head(batches)) + SumCard(Tail(batches))

StrictAsc(s) == \A i \in 1..(Len(s) - 1) : StrLess(s[i], s[i + 1])

RECURSIVE AscSeq(_)
\* The members of a set of strings in ascending order.
AscSeq(S) ==
    IF S = {} THEN <<>>
    ELSE LET m == CHOOSE x \in S : \A y \in S : ~StrLess(y, x)
         IN <<m>> \o AscSeq(S \ {m})

\* A scheme run has returned its Result and no later run has begun.
HasResult == pc \in {"scheme_next", "done"} /\ results # <<>>

LastResult == results[Len(results)]

\* C1: when no chunk file was modified after being written and no generated
\* value holds a line terminator, runScheme never fails its consistency
\* check, and every Result has ChunkUnique = Unique + Duplicates.
C1_ConsistencyCheckPasses ==
    /\ (pc = "failed" /\ err = "inconsistent counts")
          => (tampered # {} \/ ~NoTerminators)
    /\ \A i \in 1..Len(results) :
          results[i].ChunkUnique = results[i].Unique + results[i].Duplicates

\* A Result of a clean run over several chunks with a cross-chunk collision.
C1_Witness ==
    /\ HasResult /\ tampered = {} /\ NoTerminators
    /\ LastResult.Chunks >= 2
    /\ LastResult.Duplicates >= 1
    /\ LastResult.ChunkUnique = LastResult.Unique + LastResult.Duplicates

\* C2: for terminator-free generator outputs and unmodified files, a Result
\* reports Unique = the number of distinct generated values and Duplicates =
\* (sum of the chunks' locally-unique counts) - Unique.
C2_UniqueAndCrossChunkDuplicates ==
    (HasResult /\ tampered = {} /\ NoTerminators) =>
        /\ LastResult.Unique = Cardinality(GenSet)
        /\ LastResult.Duplicates = SumCard(genBatches) - Cardinality(GenSet)
        /\ LastResult.ChunkUnique = SumCard(genBatches)

\* A Result where a duplicate was removed inside a chunk and another was
\* found across chunks, so that Duplicates differs from Generated - Unique.
C2_Witness ==
    /\ HasResult /\ tampered = {} /\ NoTerminators
    /\ LastResult.Duplicates >= 1
    /\ LastResult.Duplicates # LastResult.Generated - LastResult.Unique
    /\ LastResult.Unique = Cardinality(GenSet)

\* The records of chunk file i as the cursors read them.
Records(i) == ScanAll(chunkFiles[i].data)

AllRecords == UNION { Range(Records(i)) : i \in 1..Len(chunkFiles) }

ChunksHolding(x) == { i \in 1..Len(chunkFiles) : x \in Range(Records(i)) }

Pops(x, d) == { n \in 1..Len(popLog) :
                  popLog[n].value = x /\ popLog[n].dup = d }

RECURSIVE SumLen(_, _)
SumLen(i, n) == IF i > n THEN 0 ELSE Len(Records(i)) + SumLen(i + 1, n)

\* The merge loop has emptied its queue.
MergeEnded == pc = "merge_loop" /\ h = {}

\* The chunk files are as written and each reads as a strictly ascending
\* sequence of records.
SortedChunks ==
    /\ tampered = {}
    /\ \A i \in 1..Len(chunkFiles) : StrictAsc(Records(i))

\* C3: over sorted duplicate-free chunks, whichever of several equal minima
\* the queue hands out, a value held by m chunks is popped once as unique and
\* m - 1 times as duplicate, and the counts are those of the chunks' union.
C3_TieBreakIndependence ==
    (MergeEnded /\ SortedChunks) =>
        /\ \A x \in AllRecords :
              /\ Cardinality(Pops(x, FALSE)) = 1
              /\ Cardinality(Pops(x, TRUE)) = Cardinality(ChunksHolding(x)) - 1
        /\ mUnique = Cardinality(AllRecords)
        /\ mDuplicates = SumLen(1, Len(chunkFiles)) - Cardinality(AllRecords)

\* The end of a merge in which one value came from three chunks, so that
\* the queue twice held several equal minima.
C3_Witness ==
    /\ MergeEnded /\ SortedChunks
    /\ \E x \in AllRecords : Cardinality(ChunksHolding(x)) = 3
    /\ mDuplicates = 2

CeilDiv(a, b) == (a + b - 1) \div b

\* The count chunk number i (0-based) must request under the configuration.
ExpectedCount(i) == minInt64(cfg.ChunkSize, cfg.Scale - i * cfg.ChunkSize)

\* C4: a completed scheme run has invoked the generator exactly Scale times,
\* in ceil(Scale/ChunkSize) chunks that each requested min(ChunkSize,
\* remaining) identifiers, and reports Generated = Scale and that many chunks.
C4_GeneratesExactlyScale ==
    /\ \A i \in 1..Len(man.Chunks) :
          man.Chunks[i].OriginalCount = ExpectedCount(i - 1)
    /\ pc = "gen" => /\ chunkTarget = ExpectedCount(chunkIndex)
                     /\ genCalls = totalGenerated + Len(chunkIDs)
    /\ HasResult =>
          /\ LastResult.Generated = cfg.Scale
          /\ genCalls = cfg.Scale
          /\ LastResult.Chunks = CeilDiv(cfg.Scale, cfg.ChunkSize)
          /\ Len(genBatches) = CeilDiv(cfg.Scale, cfg.ChunkSize)

\* A Result of a run whose last chunk was shorter than ChunkSize.
C4_Witness ==
    /\ HasResult
    /\ cfg.Scale = 3 /\ cfg.ChunkSize = 2
    /\ LastResult.Chunks = 2 /\ LastResult.Generated = 3 /\ genCalls = 3

\* Positions at which the sorted, compacted chunk is held for persistence.
WritePcs == {"wcf_create", "wcf_write", "wcf_sync", "hash_file", "stat",
             "sm_tmp_open", "sm_tmp_write", "sm_rename", "sm_side_open",
             "sm_side_write"}

\* Chunk indexes the in-memory manifest refers to.
RefMem == { man.Chunks[i].Index : i \in 1..Len(man.Chunks) }

\* Chunk indexes a manifest file of the scratch directory refers to.
RefDurable == ReferencedBy(metaFiles["manifest"].data)
                \cup ReferencedBy(metaFiles["tmp"].data)

C6_LocalDedupLossless ==
    /\ pc \in WritePcs =>
          /\ Range(unique) = genBatches[Len(genBatches)]
          /\ Len(unique) = Cardinality(genBatches[Len(genBatches)])
    /\ \A i \in 1..Len(man.Chunks) :
          man.Chunks[i].UniqueCount = Cardinality(genBatches[i])
    /\ pc \in {"chunk_loop", "verify", "merge_open", "merge_loop", "merge_pop"}
          => totalUniqueSum = SumCard(genBatches)

\* A batch of three values, two of them equal, compacted and recorded.
C6_Witness ==
    /\ pc = "sm_tmp_open"
    /\ chunkTarget = 3
    /\ Len(unique) = 2
    /\ man.Chunks[Len(man.Chunks)].UniqueCount = 2
    /\ Cardinality(genBatches[Len(genBatches)]) = 2

\* C7: the hash of the file writeChunkFile wrote equals the in-memory hash of
\* the values, and the file of every chunk a manifest records re-hashes to the
\* recorded hash, as long as the file was not modified after writing.
C7_HashRoundTrip ==
    /\ (pc = "hash_file" /\ chunkIndex \notin tampered)
          => hashFile(chunkFiles[CurFile].data) = hashStrings(unique)
    /\ \A i \in 1..Len(manHist.Chunks) :
          (i <= Len(chunkFiles) /\ manHist.Chunks[i].Index \notin tampered)
              => hashFile(chunkFiles[i].data) = manHist.Chunks[i].Hash

\* A written chunk whose value carries a line terminator, about to be
\* re-hashed, with an earlier chunk of two values already recorded.
C7_Witness ==
    /\ pc = "hash_file" /\ tampered = {}
    /\ \E i \in 1..Len(unique) : HasLineTerminator(unique[i])
    /\ hashFile(chunkFiles[CurFile].data) = hashStrings(unique)
    /\ Len(manHist.Chunks) = 1
    /\ manHist.Chunks[1].UniqueCount = 2
    /\ hashFile(chunkFiles[1].data) = manHist.Chunks[1].Hash

\* Every chunk a manifest (in memory, canonical or temporary) refers to was
\* written in full, synced and found to hash to the in-memory hash.
CommittedOnly ==
    \A k \in RefMem \cup RefDurable :
        /\ k \in fsynced
        /\ k \in hashChecked
        /\ scratch => /\ k + 1 <= Len(chunkFiles)
                      /\ chunkFiles[k + 1].synced

\* A chunk file that is being written or whose commit did not complete.
Uncommitted(k) == k \notin fsynced \/ k \notin hashChecked

\* A step of the program (not of its environment) out of the post-write
\* hash comparison.
LeavesHashFile == pc = "hash_file" /\ pc' # "hash_file"

\* C8: every chunk the in-memory or a durable manifest refers to has had its
\* file written, synced and its post-write hash found equal to the in-memory
\* one; no manifest refers to a chunk whose write, sync or comparison failed
\* or is still under way; a post-write hash mismatch aborts the scheme.
C8_CommitRule ==
    /\ [](CommittedOnly
          /\ \A k \in 0..(Len(chunkFiles) - 1) :
                Uncommitted(k) => k \notin RefMem \cup RefDurable)
    /\ [][(LeavesHashFile
             /\ hashFile(chunkFiles[CurFile].data) # hashStrings(unique))
          => (pc' = "failed" /\ results' = <<>>
              /\ chunkIndex \notin
                   ReferencedBy(metaFiles'["manifest"].data))]_vars

\* A run that was aborted by a post-write hash mismatch of its second chunk
\* and kept its files: both chunk files exist, the manifest refers to the
\* first only.
C8_Witness ==
    /\ pc = "failed" /\ err = "integrity: chunk hash mismatch"
    /\ cfg.KeepTempData
    /\ Len(chunkFiles) = 2
    /\ ReferencedBy(metaFiles["manifest"].data) = {0}
    /\ 1 \in fsynced /\ 1 \notin hashChecked

\* The serializations of the manifest after each of its appends so far.
ManifestVersions ==
    { Marshal([manHist EXCEPT !.Chunks = SubSeq(@, 1, k)]) :
        k \in 1..Len(manHist.Chunks) }

\* Positions outside saveManifest's replacement of the canonical file.
SettledPcs == {"chunk_loop", "gen", "wcf_create", "wcf_write", "wcf_sync",
               "hash_file", "stat", "sm_side_open", "sm_side_write",
               "verify", "merge_open", "merge_loop", "merge_pop"}

\* C9: the file at the canonical manifest path either does not exist or is
\* the complete serialization of the manifest as it was after some append;
\* once an append has been saved it is the serialization of the whole
\* in-memory manifest.
C9_ManifestAtomic ==
    /\ metaFiles["manifest"].exists
          => metaFiles["manifest"].data \in ManifestVersions
    /\ (pc \in SettledPcs /\ Len(man.Chunks) >= 1)
          => /\ metaFiles["manifest"].exists
             /\ metaFiles["manifest"].data = Marshal(man)
    /\ (pc \in SettledPcs /\ Len(man.Chunks) = 0)
          => ~metaFiles["manifest"].exists

\* The second version of the manifest is written to the temporary path
\* while the canonical path still holds the complete first version.
C9_Witness ==
    /\ pc = "sm_rename"
    /\ Len(man.Chunks) = 2
    /\ metaFiles["tmp"].data = Marshal(man)
    /\ metaFiles["manifest"].exists
    /\ metaFiles["manifest"].data = Marshal([man EXCEPT !.Chunks = SubSeq(@, 1, 1)])

\* The bytes recorded for chunk number i (1-based) of the manifest.
RecordedBytes(i) == man.Chunks[i].Hash.sha256

\* verifyChunks is about to re-hash a chunk file that differs from what the
\* manifest recorded.
VerifySeesCorruption ==
    /\ pc = "verify" /\ vidx >= 1 /\ vidx <= Len(man.Chunks)
    /\ chunkFiles[vidx].data # RecordedBytes(vidx)

\* A step of the program (not of its environment) within verifyChunks.
VerifyStep == pc = "verify" /\ (pc' # pc \/ vidx' # vidx)

\* C10: the merge is entered only after verifyChunks found the hash of every
\* chunk of the manifest equal to the recorded one; when a chunk's content
\* differs at the time it is re-hashed, the run fails without a merge
\* iteration and without a Result.
C10_VerificationGate ==
    /\ [](pc \in {"merge_open", "merge_loop", "merge_pop"}
             => verified = RefMem)
    /\ []((popLog # <<>> \/ HasResult)
             => verified = 0..(Len(manHist.Chunks) - 1))
    /\ [][(VerifySeesCorruption /\ VerifyStep)
          => (pc' = "failed" /\ err' # "" /\ popLog' = <<>>
              /\ results' = <<>>)]_vars
    /\ []((pc = "failed" /\ err = "corruption: chunk hash mismatch")
             => (popLog = <<>> /\ results = <<>>))

\* A run that failed in verifyChunks because of a modified byte, with two
\* chunks committed and no pop performed.
C10_Witness ==
    /\ pc = "failed" /\ err = "corruption: chunk hash mismatch"
    /\ tampered # {}
    /\ Len(manHist.Chunks) = 2
    /\ popLog = <<>> /\ results = <<>>

\* The merge loop of mergeChunks is executing.
InMergeLoop == pc \in {"merge_loop", "merge_pop"}

\* C11 (as amended): once ctx is cancelled while the merge loop runs, the
\* turn already past its check performs its one pop and no further pop is
\* started; when values are still queued the next check ends the run with the
\* cancellation error, zero counts and no Result; a Result is returned with
\* ctx cancelled only when the queue was already empty, the loop ending
\* without another check.
C11_CancelDuringMerge ==
    /\ [][(ctxDone /\ pc = "merge_loop") => popLog' = popLog]_vars
    /\ [][(ctxDone /\ pc = "merge_pop" /\ pc' # pc)
          => (Len(popLog') = Len(popLog) + 1
              /\ pc' \in {"merge_loop", "failed"})]_vars
    /\ [][(ctxDone /\ pc = "merge_loop" /\ h # {} /\ pc' # pc)
          => (pc' = "failed" /\ err' = "cancelled" /\ results' = <<>>
              /\ mUnique' = 0 /\ mDuplicates' = 0)]_vars
    /\ [][(ctxDone /\ InMergeLoop /\ Len(results') > Len(results))
          => (pc = "merge_loop" /\ h = {})]_vars
    /\ []((pc = "failed" /\ err = "cancelled") => results = <<>>)

\* ctx was cancelled during a turn of the merge loop that had passed its
\* check, after an earlier pop and with other values still queued.
C11_Witness ==
    /\ ctxDone /\ pc = "merge_pop"
    /\ popLog # <<>>
    /\ Cardinality(h) > 1

\* C11 as stated: with ctx cancelled while the merge loop runs, no Result is
\* returned for the scheme.
C11_NoResultAfterCancel ==
    [][(ctxDone /\ InMergeLoop) => Len(results') <= Len(results)]_vars

\* C12: once ctx is cancelled while the identifiers of a chunk are still
\* being generated, the run stops with the cancellation error before the
\* batch is complete: the batch is never filled, sorted or written.
C12_CancelStopsGeneration ==
    [][(ctxDone /\ pc = "gen" /\ Len(chunkIDs) < chunkTarget)
       => \/ pc' = "failed" /\ err' = "cancelled"
          \/ pc' = "gen" /\ Len(chunkIDs') < chunkTarget']_vars

\* C13: when Run fails because a scheme of the list is unknown, nothing was
\* allocated for any scheme of the list: no scratch directory exists, no
\* identifier was generated, no chunk was written and no manifest built.
C13_UnknownSchemeFailsFirst ==
    (pc = "failed" /\ err = "config: unknown scheme")
       => /\ ~scratch
          /\ genCalls = 0 /\ genBatches = <<>>
          /\ fsynced = {} /\ manHist = NoManifest

\* C14: a configuration with Scale <= 0, ChunkSize <= 0 or ChunkSize > Scale
\* is rejected by Run's validation with a configuration error.
C14_InvalidConfigRejected ==
    [][(pc = "start"
        /\ (cfg.Scale <= 0 \/ cfg.ChunkSize <= 0 \/ cfg.ChunkSize > cfg.Scale))
       => (pc' = "failed" /\ err' \in {"config: scale must be > 0",
                                       "config: invalid chunk size"})]_vars

RECURSIVE SumOriginal(_)
\* Sum of the requested counts of a list of chunk records.
SumOriginal(chunks) ==
    IF chunks = <<>> THEN 0
    ELSE Head(chunks).OriginalCount + SumOriginal(Tail(chunks))

\* Positions between the memory guard of a chunk and its commit.
ChunkPcs == {"gen", "wcf_create", "wcf_write", "wcf_sync", "hash_file",
             "stat", "sm_tmp_open", "sm_tmp_write", "sm_rename",
             "sm_side_open", "sm_side_write"}

\* The available memory read for a chunk is below
\* chunkTarget * bytesPerID + guardMB.
MemoryShort ==
    /\ memSeen # NoReading
    /\ memSeen.available
         < memSeen.target * cfg.ApproxBytesPerID + cfg.MemGuardMB * MiB

\* C15: every chunk in production has passed a memory reading taken for it
\* with its own target count; when the reading for a chunk is below
\* chunkTarget * bytesPerID + guardMB the scheme has failed with a resource
\* error, the generator was not invoked for that chunk, no file was created
\* for it and the manifest, in memory and on storage, is as the previous
\* chunk left it.
C15_MemoryGuardEveryChunk ==
    /\ pc \in ChunkPcs
          => /\ memSeen.chunk = chunkIndex
             /\ memSeen.target = chunkTarget
             /\ chunkTarget = minInt64(cfg.ChunkSize,
                                       cfg.Scale - totalGenerated)
             /\ ~MemoryShort
    /\ MemoryShort
          => /\ pc = "failed" /\ err = "resource: insufficient memory"
             /\ results = <<>>
             /\ Len(genBatches) = memSeen.chunk
             /\ Len(manHist.Chunks) = memSeen.chunk
             /\ genCalls = SumOriginal(manHist.Chunks)
             /\ scratch
                   => /\ Len(chunkFiles) = memSeen.chunk
                      /\ ~metaFiles["tmp"].exists
                      /\ IF memSeen.chunk = 0
                         THEN ~metaFiles["manifest"].exists
                         ELSE metaFiles["manifest"].data = Marshal(manHist)

\* The guard stopped the second chunk: the memory read for it covers the
\* chunk but not the margin, the first chunk is committed and kept.
C15_Witness ==
    /\ pc = "failed" /\ err = "resource: insufficient memory"
    /\ memSeen.chunk = 1
    /\ memSeen.available = 256 * MiB
    /\ scratch /\ Len(chunkFiles) = 1

\* C16: a failure or a cancellation in one scheme ends the invocation: Run
\* returns an error and no results, and no later scheme is started; a Result
\* is appended only by a scheme run whose merge emptied its queue and whose
\* counts passed the consistency check, one per scheme in list order; Run
\* returns results only when every scheme of the list has one.
C16_FailureAbortsRun ==
    /\ [](pc = "failed" => (results = <<>> /\ err # ""))
    /\ [][pc = "failed" => (pc' = "failed" /\ schemeIdx' = schemeIdx
                            /\ results' = <<>>)]_vars
    /\ [][results' # results
          => \/ pc' = "failed" /\ results' = <<>>
             \/ /\ pc = "merge_loop" /\ h = {}
                /\ totalUniqueSum = mUnique + mDuplicates
                /\ Len(results') = Len(results) + 1
                /\ SubSeq(results', 1, Len(results)) = results
                /\ results'[Len(results')].Scheme = cfg.Schemes[schemeIdx]
                /\ schemeIdx' = schemeIdx + 1]_vars
    /\ [](pc \notin {"start", "failed"} => Len(results) = schemeIdx - 1)
    /\ [](pc = "done" => (err = "" /\ Len(results) = Len(cfg.Schemes)))

\* The second scheme of the list failed after the first had returned its
\* Result: Run returns the error and no results.
C16_Witness ==
    /\ pc = "failed" /\ err = "inconsistent counts"
    /\ schemeIdx = 2 /\ cfg.Schemes[2] = "ksuid"
    /\ results = <<>>

\* C17: every return of a scheme run that had created its scratch directory,
\* with a Result or with an error, removes the directory with its chunk
\* files, manifest and sidecar when KeepTempData is unset, and leaves the
\* directory, the chunk files, the manifest and the sidecar as they are when
\* it is set; outside a scheme run no scratch directory is left unless
\* retention was requested.
C17_ScratchRelease ==
    /\ [][(scratch /\ pc' \in {"failed", "scheme_next"} /\ pc' # pc)
          => IF cfg.KeepTempData
             THEN /\ scratch'
                  /\ chunkFiles' = chunkFiles
                  /\ metaFiles'["manifest"] = metaFiles["manifest"]
                  /\ metaFiles'["sidecar"] = metaFiles["sidecar"]
             ELSE /\ ~scratch'
                  /\ chunkFiles' = <<>>
                  /\ metaFiles' = NoMetaFiles]_vars
    /\ []((pc \in {"failed", "scheme_next", "done"} /\ ~cfg.KeepTempData)
             => (~scratch /\ chunkFiles = <<>> /\ metaFiles = NoMetaFiles))
    /\ [][(scratch /\ cfg.KeepTempData) => scratch']_vars

\* A run without retention failed after a chunk had been written, synced and
\* committed: nothing of the scratch directory is left.
C17_Witness ==
    /\ pc = "failed" /\ ~cfg.KeepTempData
    /\ fsynced # {} /\ manHist.Chunks # <<>>
    /\ ~scratch /\ chunkFiles = <<>> /\ metaFiles = NoMetaFiles

\* The bytes of chunk file i (1-based) as a function of the generator's
\* outputs for that chunk.
FileOf(i) == HashInput(AscSeq(genBatches[i]))

\* The distinct records the chunk files hold, as a function of the
\* generator's outputs.
RecordsOf == UNION { Range(ScanAll(FileOf(i))) : i \in 1..Len(genBatches) }

\* C18: the Result of an undisturbed run and the chunk files and hashes it
\* leaves are functions of the generator's outputs, Scale and ChunkSize
\* alone, whatever Verbose and LogInterval are, and reporting progress never
\* ends a run; so two runs that differ only in Verbose and LogInterval return
\* the same Chunks, Generated, ChunkUnique, Unique and Duplicates and leave
\* the same chunk contents and hashes.
C18_ProgressIndependence ==
    /\ err # "panic: integer divide by zero"
    /\ HasResult =>
          /\ LastResult.Chunks = CeilDiv(cfg.Scale, cfg.ChunkSize)
          /\ LastResult.Chunks = Len(genBatches)
          /\ LastResult.Generated = cfg.Scale
          /\ LastResult.ChunkUnique = SumCard(genBatches)
          /\ LastResult.Unique = Cardinality(RecordsOf)
          /\ LastResult.Duplicates
               = SumCard(genBatches) - Cardinality(RecordsOf)
          /\ Len(chunkFiles) = Len(genBatches)
          /\ \A i \in 1..Len(genBatches) :
                /\ chunkFiles[i].data = FileOf(i)
                /\ manHist.Chunks[i].Hash = Sha256Hex(FileOf(i))
                /\ manHist.Chunks[i].OriginalCount = ExpectedCount(i - 1)

\* A verbose run with a progress line per identifier has returned its Result
\* after three chunks and two duplicates, having printed lines in both loops.
C18_Witness ==
    /\ HasResult
    /\ cfg.Verbose /\ cfg.LogInterval = 1
    /\ LastResult.Chunks = 3 /\ LastResult.Duplicates = 2
    /\ \E i, j \in 1..Len(printed) :
          printed[i].line = "generated" /\ printed[j].line = "merge"

\* C19: when every chunk file is as written and reads as a strictly
\* ascending sequence, no pop of the merge loop returns a value smaller than
\* the pop before it, every queued value is at least the low-water mark
\* prevValue, which is the value popped last, and the pops of one value are
\* consecutive.
C19_MergeOrdering ==
    SortedChunks =>
       /\ \A n \in 1..(Len(popLog) - 1) :
             ~StrLess(popLog[n + 1].value, popLog[n].value)
       /\ \A m, n \in 1..Len(popLog) :
             (m < n /\ popLog[m].value = popLog[n].value)
                => \A k \in m..n : popLog[k].value = popLog[m].value
       /\ (InMergeLoop /\ hasPrev)
             => /\ prevValue = popLog[Len(popLog)].value
                /\ \A e \in h : ~StrLess(e.value, prevValue)

\* A merge of two sorted chunks has ended whose pops went from the first
\* chunk to the second and back: three values, each greater than the last.
C19_Witness ==
    /\ MergeEnded /\ SortedChunks
    /\ Len(chunkFiles) = 2 /\ Len(popLog) = 3
    /\ Records(1) = <<popLog[1].value, popLog[3].value>>
    /\ Records(2) = <<popLog[2].value>>
    /\ StrLess(popLog[1].value, popLog[2].value)
    /\ StrLess(popLog[2].value, popLog[3].value)

\* The values cursor r has still to hand out: its current one and those of
\* the bytes it has not scanned.
Left(r) == IF r.eof THEN 0 ELSE 1 + Len(ScanAll(r.buf))

RECURSIVE SumLeft(_)
SumLeft(rs) == IF rs = <<>> THEN 0 ELSE Left(Head(rs)) + SumLeft(Tail(rs))

\* Number of positions of seq that hold x.
Occ(seq, x) == Cardinality({ n \in 1..Len(seq) : seq[n] = x })

RECURSIVE SumOcc(_, _)
\* Number of records equal to x in the chunk files from the i-th on.
SumOcc(i, x) ==
    IF i > Len(chunkFiles) THEN 0
    ELSE Occ(Records(i), x) + SumOcc(i + 1, x)

PopValues == [n \in 1..Len(popLog) |-> popLog[n].value]

\* The merge loop in terms of the records the chunk files hold: the queue
\* holds the current value of every cursor that is not exhausted; a completed
\* turn pops the current value of one cursor and moves that cursor one value
\* forward, leaving the others as they are, so the values left decrease by
\* one per turn and the loop ends; over unmodified chunk files the pops made
\* and the values left add up to the number of records the files hold (the
\* sum of the chunks' unique counts when no value holds a line terminator),
\* and the queue is empty after that many pops, every cursor exhausted and
\* every record popped as often as the files hold it.
MergeLoopVariant ==
    /\ [](InMergeLoop
             => /\ h = { [value |-> readers[i].value, reader |-> i] :
                           i \in { j \in 1..Len(readers) : ~readers[j].eof } }
                /\ Len(popLog) = processed
                /\ h = {} <=> SumLeft(readers) = 0)
    /\ [][(pc = "merge_pop" /\ pc' = "merge_loop")
          => \E i \in 1..Len(readers) :
                /\ ~readers[i].eof
                /\ popLog'[Len(popLog')].value = readers[i].value
                /\ Left(readers'[i]) = Left(readers[i]) - 1
                /\ readers'[i].buf
                     = SubSeq(readers[i].buf,
                              Len(readers[i].buf) - Len(readers'[i].buf) + 1,
                              Len(readers[i].buf))
                /\ \A j \in 1..Len(readers) \ {i} : readers'[j] = readers[j]
                /\ processed' = processed + 1]_vars
    /\ []((InMergeLoop /\ tampered = {})
             => /\ processed + SumLeft(readers) = SumLen(1, Len(chunkFiles))
                /\ NoTerminators
                      => SumLen(1, Len(chunkFiles)) = totalUniqueSum)
    /\ []((MergeEnded /\ tampered = {})
             => /\ processed = SumLen(1, Len(chunkFiles))
                /\ \A i \in 1..Len(readers) : readers[i].eof
                /\ \A x \in AllRecords : Occ(PopValues, x) = SumOcc(1, x))

\* C20: a merge loop that ran without cancellation and read error over the
\* chunk files as written ends with an empty queue and every cursor
\* exhausted after exactly T pops, T the number of values persisted in the
\* chunks, each value popped once for every chunk it was persisted in.
C20_MergeTermination ==
    (MergeEnded /\ tampered = {})
       => /\ processed = totalUniqueSum
          /\ \A i \in 1..Len(readers) : readers[i].eof
          /\ \A v \in GenSet :
                Occ(PopValues, v)
                  = Cardinality({ i \in 1..Len(genBatches) :
                                    v \in genBatches[i] })

\* mergeChunks is executing.
InMerge == pc \in {"merge_open", "merge_loop", "merge_pop"}

\* C21: no chunk file is opened twice by a merge and no handle is closed
\* twice; while mergeChunks runs the handles not yet closed are those of the
\* cursors it holds; once it has returned, on whatever path, every handle it
\* opened has been closed exactly once and no cursor is left.
C21_CursorRelease ==
    /\ \A k \in 1..Len(handles) : handles[k].closes <= 1
    /\ \A k, l \in 1..Len(handles) :
          handles[k].chunk = handles[l].chunk => k = l
    /\ InMerge
          => \A k \in 1..Len(handles) :
                handles[k].closes = 0
                   <=> \E j \in 1..Len(readers) :
                          readers[j].meta = handles[k].chunk
    /\ ~InMerge
          => /\ readers = <<>>
             /\ \A k \in 1..Len(handles) : handles[k].closes = 1

\* mergeChunks returned an error from opening the third chunk after it had
\* opened two: both handles are closed.
C21_Witness ==
    /\ pc = "failed" /\ err = "io: open chunk"
    /\ Len(handles) = 2
    /\ \A k \in 1..Len(handles) : handles[k].closes = 1

\* ------------------------------------------------------------ C22

\* C22: at every instant between file-system steps, whenever the canonical
\* manifest and the detached checksum sidecar both exist, the sidecar holds
\* the hex digest of the canonical manifest's current bytes.
C22_SidecarConsistency ==
    (metaFiles["manifest"].exists /\ metaFiles["sidecar"].exists)
        => metaFiles["sidecar"].data =
              <<Sha256Hex(metaFiles["manifest"].data)>>

\* What saveManifest does keep: outside its last two steps (the sidecar left
\* to rewrite, or opened and not yet written) and short of a failure, an
\* existing sidecar holds the digest of the canonical manifest.
SidecarSettled ==
    (/\ pc \notin {"sm_side_open", "sm_side_write", "failed"}
     /\ metaFiles["manifest"].exists /\ metaFiles["sidecar"].exists)
        => metaFiles["sidecar"].data =
              <<Sha256Hex(metaFiles["manifest"].data)>>

\* ------------------------------------------------------------ C23

\* C23: for every sorted duplicate-free sequence of strings, the empty
\* string and strings holding line feeds or carriage returns included, what
\* writeChunkFile wrote is read back by a cursor as exactly the same
\* sequence: the same values, in the same order, as many of them.
C23_CursorRoundTrip ==
    \A i \in 1..Len(chunkFiles) :
        (/\ (i - 1) \in fsynced /\ (i - 1) \notin tampered
         /\ i <= Len(genBatches))
            => Records(i) = AscSeq(genBatches[i])

\* The round trip does hold for the values free of line feeds that do not
\* end in a carriage return.
LineSafe(v) ==
    /\ \A k \in 1..Len(v) : v[k] # LF
    /\ (v = <<>> \/ v[Len(v)] # CR)

RoundTripOfLineSafe ==
    \A i \in 1..Len(chunkFiles) :
        (/\ (i - 1) \in fsynced /\ (i - 1) \notin tampered
         /\ i <= Len(genBatches)
         /\ \A v \in genBatches[i] : LineSafe(v))
            => Records(i) = AscSeq(genBatches[i])

\* ------------------------------------------------------------ C24

\* The call of issued[i] returned what the n-th of the earlier calls had
\* returned.
RepeatsEarlier(i) ==
    /\ issued[i].now = earlier.now
    /\ issued[i].counter <= earlier.upto
    /\ issued[i].id = CustomUID(earlier.now, issued[i].counter,
                                earlier.randomBase)

\* C24: no two calls of GenerateCustomUID that read the same second return
\* the same identifier, one after the other or interleaved, across the
\* counter passing 65535 and among callers that read other seconds,
\* whatever the random source returns.
C24_UniqueWithinSecond ==
    /\ \A i, j \in 1..Len(issued) :
          (i < j /\ issued[i].now = issued[j].now)
              => issued[i].id # issued[j].id
    /\ \A i \in 1..Len(issued) : ~RepeatsEarlier(i)

\* The identifier tells the calls of a second apart exactly when the
\* counter or the random base does: the encoding loses neither.
IdentifierKeepsPair ==
    \A i, j \in 1..Len(issued) :
        (issued[i].now = issued[j].now /\ issued[i].id = issued[j].id)
            => /\ issued[i].counter = issued[j].counter
               /\ issued[i].randomBase = issued[j].randomBase

====
